---------------------------- MODULE Spec2Model ----------------------------
(***************************************************************************)
(* obsidian-get-tags (src/src/main.rs): the front-matter extractor, the    *)
(* tag parser, the parallel aggregator, the inline scanner's stream and    *)
(* the entry point.                                                        *)
(*                                                                         *)
(* A string is a sequence of one-character strings; a text is such a       *)
(* sequence with "\n" as its line terminator.  A note file is what         *)
(* File::open and BufRead::lines give for it, together with what           *)
(* YamlLoader::load_from_str (yaml-rust, a dependency) returns for the     *)
(* text of its front-matter block.                                         *)
(***************************************************************************)
EXTENDS Integers, Sequences, FiniteSets

VARIABLES
    pc,              \* position of main, or "parse" in ParseSpec
    argPath,         \* args.path is Some
    env,             \* env::var_os("OBSIDIAN_VAULT_PATH"): "unread", "set", "unset"
    argRg,           \* args.rg
    files,           \* collect_paths' result: sequence of note files
    nworkers,        \* threads of the rayon pool
    pending,         \* indices of files no task has taken yet
    part,            \* per worker: the tags it has folded so far
    loaded,          \* per path: load_tags' result once its task ran
    collected_tags,  \* main's HashSet<String>
    scanned,         \* items the rg stream has produced so far
    logged,          \* number of error! lines written
    remaining,       \* tags the print loop has not reached yet
    out,             \* lines printed on standard output
    exit,            \* "running", "0" or "1"
    stderr,          \* the error main returned, "" if none
    child,           \* the rg subprocess: "none", "running" or "spawn_error"
    file,            \* ParseSpec: the file under test
    section,         \* ParseSpec: read_first_section's result
    tags             \* ParseSpec: load_tags' result

vars == <<pc, argPath, env, argRg, files, nworkers, pending, part, loaded,
          collected_tags, scanned, logged, remaining, out, exit, stderr, child,
          file, section, tags>>

mainVars == <<pc, argPath, env, argRg, files, nworkers, pending, part, loaded,
              collected_tags, scanned, logged, remaining, out, exit, stderr, child>>

parseVars == <<file, section, tags>>

-----------------------------------------------------------------------------
(* Bounds *)

MaxLines == 5        \* lines of a file in the extractor's inputs
MaxTags == 4         \* elements of a `tags` list in the parser's inputs
MaxPaths == 3        \* note files in the vault
MaxWorkers == 2      \* threads of the pool
MaxStream == 2       \* items the rg stream produces

-----------------------------------------------------------------------------
(* Strings *)

WhiteSpace == {" "}
NL == "\n"
Delim == <<"-", "-", "-">>

RECURSIVE trim_start(_)
trim_start(s) ==
    IF s = <<>> THEN s
    ELSE IF Head(s) \in WhiteSpace THEN trim_start(Tail(s)) ELSE s

RECURSIVE trim_end(_)
trim_end(s) ==
    IF s = <<>> THEN s
    ELSE IF s[Len(s)] \in WhiteSpace THEN trim_end(SubSeq(s, 1, Len(s) - 1)) ELSE s

trim(s) == trim_end(trim_start(s))

RECURSIVE trim_start_matches(_, _)
trim_start_matches(s, c) ==
    IF s = <<>> THEN s
    ELSE IF Head(s) = c THEN trim_start_matches(Tail(s), c) ELSE s

starts_with(s, p) == Len(s) >= Len(p) /\ SubSeq(s, 1, Len(p)) = p

\* str::find: the 0-based offset of the first occurrence of p in s, -1 for None
find(s, p) ==
    LET hits == {i \in 0..(Len(s) - Len(p)) : SubSeq(s, i + 1, i + Len(p)) = p}
    IN  IF hits = {} THEN -1 ELSE CHOOSE i \in hits : \A j \in hits : i <= j

\* bounded sequences over S
SeqUpTo(S, n) == UNION {[1..k -> S] : k \in 0..n}

-----------------------------------------------------------------------------
(* Results *)

Ok(v) == [ok |-> TRUE, val |-> v, err |-> ""]
Err(e) == [ok |-> FALSE, val |-> <<>>, err |-> e]
NotRun == [ok |-> FALSE, val |-> <<>>, err |-> "not run"]

-----------------------------------------------------------------------------
(* read_first_section *)

PushDelimiterAsRead(current_section, line) == Append(current_section \o line, NL)

\* current_section.push_str("---\n"), at either delimiter line
push_delimiter(current_section, line) == current_section \o Delim \o <<NL>>

\* current_section.push_str(&line); current_section.push('\n')
push_line(current_section, line) == Append(current_section \o line, NL)

EndOfInputDiscards(in_section, current_section) == Ok(<<>>)

\* after the loop: the buffer of an unterminated block, or the empty string
end_of_input(in_section, current_section) ==
    IF in_section THEN Ok(current_section) ELSE Ok(<<>>)

\* the loop from line i of f.lines on; errAt = i means lines() yields Err there
RECURSIVE section_loop(_, _, _, _)
section_loop(f, i, in_section, current_section) ==
    IF i > Len(f.lines) THEN end_of_input(in_section, current_section)
    ELSE IF f.errAt = i THEN Err("LoadError")
    ELSE LET line == f.lines[i] IN
        IF trim(line) = Delim THEN
            IF in_section THEN Ok(push_delimiter(current_section, line))
            ELSE section_loop(f, i + 1, TRUE, push_delimiter(current_section, line))
        ELSE IF in_section THEN
            section_loop(f, i + 1, in_section, push_line(current_section, line))
        ELSE section_loop(f, i + 1, in_section, current_section)

read_first_section(f) ==
    IF ~f.open THEN Err("LoadError") ELSE section_loop(f, 1, FALSE, <<>>)

-----------------------------------------------------------------------------
(* load_tags *)

\* Yaml values, as far as load_tags looks at them
BadValue == [type |-> "BadValue", items |-> <<>>, str |-> <<>>]
YString(s) == [type |-> "String", items |-> <<>>, str |-> s]
YInteger == [type |-> "Integer", items |-> <<>>, str |-> <<>>]
YArray(xs) == [type |-> "Array", items |-> xs, str |-> <<>>]
YHash == [type |-> "Hash", items |-> <<>>, str |-> <<>>]
YNull == [type |-> "Null", items |-> <<>>, str |-> <<>>]

\* a document: a hash with or without a `tags` key, or not a hash at all
Doc(isHash, hasTags, v) == [isHash |-> isHash, hasTags |-> hasTags, tags |-> v]

\* YamlLoader::load_from_str's outcome
Loaded(docs) == [scanError |-> FALSE, docs |-> docs]
ScanError == [scanError |-> TRUE, docs |-> <<>>]

\* yaml["tags"]: Index<&str> gives BadValue for a missing key or a non-hash
yaml_index_tags(yaml) ==
    IF yaml.isHash /\ yaml.hasTags THEN yaml.tags ELSE BadValue

as_vec(v) == IF v.type = "Array" THEN Ok(v.items) ELSE Err("None")
as_str(v) == IF v.type = "String" THEN Ok(v.str) ELSE Err("None")

MakeTagNoTrim(s) == IF s # <<>> THEN Ok(s) ELSE Err("None")

make_tag(s) ==
    LET t == trim(s) IN IF t # <<>> THEN Ok(t) ELSE Err("None")

RECURSIVE filter_map_tags(_)
filter_map_tags(xs) ==
    IF xs = <<>> THEN <<>>
    ELSE LET s == as_str(Head(xs))
             t == IF s.ok THEN make_tag(s.val) ELSE s
         IN  (IF t.ok THEN <<t.val>> ELSE <<>>) \o filter_map_tags(Tail(xs))

\* frontmatter::find_yaml_block: the text between a leading "---\n" and the
\* next "---\n", or None
find_yaml_block(text) ==
    IF starts_with(text, Delim \o <<NL>>) THEN
        LET slice_after_marker == SubSeq(text, 5, Len(text))
            fm_end == find(slice_after_marker, Delim \o <<NL>>)
        IN  IF fm_end = -1 THEN Err("None")
            ELSE Ok(SubSeq(slice_after_marker, 1, fm_end))
    ELSE Err("None")

\* frontmatter::parse: Err(ScanError), Ok(None) or Ok(Some(yaml)); None is
\* the empty sequence, Some(y) the sequence <<y>>
frontmatter_parse(text, yaml) ==
    LET block == find_yaml_block(text) IN
    IF ~block.ok THEN Ok(<<>>)
    ELSE IF yaml.scanError THEN Err("ParseError")
    ELSE IF yaml.docs = <<>> THEN Ok(<<>>)
    ELSE Ok(<<yaml.docs[Len(yaml.docs)]>>)

load_tags(f) ==
    LET content == read_first_section(f) IN
    IF ~content.ok THEN content
    ELSE LET items == frontmatter_parse(content.val, f.yaml) IN
        IF ~items.ok THEN items
        ELSE IF items.val = <<>> THEN Ok(<<>>)
        ELSE LET v == as_vec(yaml_index_tags(items.val[1])) IN
            IF v.ok THEN Ok(filter_map_tags(v.val)) ELSE Err("InvalidTagsType")

-----------------------------------------------------------------------------
(* Inputs of the extractor and the parser *)

Pay == <<"a">>       \* a line of plain text (a YAML plain scalar)
Yml == <<"t">>       \* a line of YAML whose decoding the file's yaml field gives

LineAlphabet == {Delim, <<" ">> \o Delim, Pay, Pay \o Delim}

RECURSIVE Unlines(_)
Unlines(ls) == IF ls = <<>> THEN <<>> ELSE Append(Head(ls), NL) \o Unlines(Tail(ls))

DelimLines(f) == {i \in 1..Len(f.lines) : trim(f.lines[i]) = Delim}

Unopenable == [open |-> FALSE, lines |-> <<>>, errAt |-> 0, yaml |-> Loaded(<<>>)]

\* plain-text files: a non-blank block is a scalar document, a blank one none
PlainYaml(ls, e) ==
    LET r == read_first_section([open |-> TRUE, lines |-> ls, errAt |-> e,
                                 yaml |-> Loaded(<<>>)])
        b == IF r.ok THEN find_yaml_block(r.val) ELSE r
    IN  IF b.ok /\ trim(SelectSeq(b.val, LAMBDA c : c # NL)) # <<>>
        THEN Loaded(<<Doc(FALSE, FALSE, BadValue)>>) ELSE Loaded(<<>>)

ExtractFiles ==
    {[open |-> TRUE, lines |-> ls, errAt |-> e, yaml |-> PlainYaml(ls, e)] :
        ls \in SeqUpTo(LineAlphabet, MaxLines), e \in 0..1}
    \cup {[open |-> TRUE, lines |-> ls, errAt |-> Len(ls), yaml |-> PlainYaml(ls, Len(ls))] :
        ls \in SeqUpTo(LineAlphabet, MaxLines)}

TagElems == {YString(<<"a">>), YString(<<" ", "b", " ">>), YString(<<>>),
             YString(<<" ">>), YString(<<"c">>), YInteger}

TagValues == {YString(<<"a">>), YHash, YInteger, YNull}
             \cup {YArray(xs) : xs \in SeqUpTo(TagElems, MaxTags)}

Docs == {Doc(FALSE, FALSE, BadValue), Doc(TRUE, FALSE, BadValue)}
        \cup {Doc(TRUE, TRUE, v) : v \in TagValues}

YamlOutcomes == {ScanError, Loaded(<<>>)} \cup {Loaded(<<d>>) : d \in Docs}

YamlShapes == {<<Delim, Yml, Delim>>, <<Delim, Yml>>, <<Yml>>,
               <<Pay, <<" ">> \o Delim, Yml, Append(Delim, " "), Delim>>}

ParseFiles ==
    {[open |-> TRUE, lines |-> ls, errAt |-> 0, yaml |-> y] :
        ls \in YamlShapes, y \in YamlOutcomes}

-----------------------------------------------------------------------------
(* ParseSpec: one call of read_first_section, then of load_tags, on a file *)

mainIdle ==
    /\ pc = "parse" /\ argPath = FALSE /\ env = "unread" /\ argRg = FALSE
    /\ files = <<>> /\ nworkers = 1 /\ pending = {} /\ part = <<>> /\ loaded = <<>>
    /\ collected_tags = {} /\ scanned = <<>> /\ logged = 0 /\ remaining = {}
    /\ out = <<>> /\ exit = "running" /\ stderr = "" /\ child = "none"

ParseInit ==
    /\ mainIdle
    /\ file \in ExtractFiles \cup ParseFiles \cup {Unopenable}
    /\ section = NotRun
    /\ tags = NotRun

ReadFirstSection ==
    /\ pc = "parse"
    /\ section = NotRun
    /\ section' = read_first_section(file)
    /\ UNCHANGED <<file, tags>>
    /\ UNCHANGED mainVars

LoadTags ==
    /\ pc = "parse"
    /\ section # NotRun
    /\ tags = NotRun
    /\ tags' = load_tags(file)
    /\ UNCHANGED <<file, section>>
    /\ UNCHANGED mainVars

ParseNext == ReadFirstSection \/ LoadTags

ParseSpec == ParseInit /\ [][ParseNext]_vars

-----------------------------------------------------------------------------
(* The vault and the rg stream of a run of main *)

Note(y) == [open |-> TRUE, lines |-> <<Delim, Yml, Delim>>, errAt |-> 0, yaml |-> y]
TagsDoc(v) == Loaded(<<Doc(TRUE, TRUE, v)>>)

NoteFiles ==
    { Note(TagsDoc(YArray(<<YString(<<"a">>)>>))),                 \* tags: [a]
      Note(TagsDoc(YArray(<<YString(<<"#">>), YString(<<" ", "a">>)>>))), \* tags: ["#", " a"]
      Note(TagsDoc(YString(<<"a">>))),                             \* tags: a
      Note(TagsDoc(YHash)),                                        \* tags: {a: b}
      [open |-> TRUE, lines |-> <<Delim, Yml, Delim>>, errAt |-> 2,
       yaml |-> Loaded(<<>>)],                                     \* unreadable line
      Unopenable }

\* a directory entry: WalkDir's item, with what is_file() and extension() give
Entries ==
    {[is_file |-> TRUE, ext |-> "md", file |-> f] : f \in NoteFiles}
    \cup {[is_file |-> FALSE, ext |-> "md", file |-> Unopenable],
          [is_file |-> TRUE, ext |-> "txt",
           file |-> Note(TagsDoc(YArray(<<YString(<<"a">>)>>)))]}

\* what the stream of rg's standard output yields: a line, or a read error
StreamItems == {Ok(<<"#", "a">>), Ok(<<"#", "b", " ">>), Err("io")}

-----------------------------------------------------------------------------
(* collect_paths, collect_tags, collect_obsidian_tags *)

RECURSIVE collect_paths(_)
collect_paths(entries) ==
    IF entries = <<>> THEN <<>>
    ELSE (IF Head(entries).is_file /\ Head(entries).ext = "md"
          THEN <<Head(entries).file>> ELSE <<>>) \o collect_paths(Tail(entries))

Range(s) == {s[i] : i \in DOMAIN s}

FoldTaskResets(acc, r) == IF r.ok THEN acc \o r.val ELSE <<>>

\* filter_map(|path| load_tags(path).ok()).flatten(), folded into a worker's part
fold_task(acc, r) == IF r.ok THEN acc \o r.val ELSE acc

CollectLastPart(parts) == IF parts = <<>> THEN {} ELSE Range(parts[Len(parts)])

\* .collect() into the HashSet: the workers' parts, merged
collect(parts) == UNION {Range(parts[w]) : w \in DOMAIN parts}

ScanLineRaw(item) == item

\* .map(|line| line.map(|s| s.trim().to_string()))
scan_line(item) == IF item.ok THEN Ok(trim(item.val)) ELSE item

remove_hash(s) == trim_start_matches(s, "#")

-----------------------------------------------------------------------------
(* main *)

parseIdle == file = Unopenable /\ section = NotRun /\ tags = NotRun

Init ==
    /\ pc = "start"
    /\ argPath \in BOOLEAN /\ env = "unread" /\ argRg \in BOOLEAN
    /\ files = <<>> /\ nworkers = 1 /\ pending = {} /\ part = <<>> /\ loaded = <<>>
    /\ collected_tags = {} /\ scanned = <<>> /\ logged = 0 /\ remaining = {}
    /\ out = <<>> /\ exit = "running" /\ stderr = "" /\ child = "none"
    /\ parseIdle

Abort(msg, code) ==
    /\ pc' = "failed"
    /\ exit' = code
    /\ stderr' = msg

SpawnFailureIgnored(msg, code) ==
    /\ pc' = "print"
    /\ remaining' = collected_tags
    /\ UNCHANGED <<exit, stderr>>

\* `?` on collect_obsidian_tags' error: main returns it
spawn_failed(msg, code) ==
    /\ Abort(msg, code)
    /\ UNCHANGED remaining

\* args.path, else OBSIDIAN_VAULT_PATH, else the error
ResolveRoot ==
    /\ pc = "start"
    /\ \/ /\ argPath
          /\ pc' = "expand"
          /\ UNCHANGED <<env, exit, stderr>>
       \/ /\ ~argPath
          /\ env' = "set"
          /\ \/ pc' = "expand" /\ UNCHANGED <<exit, stderr>>
             \/ Abort("failed to convert path", "101")
       \/ /\ ~argPath
          /\ env' = "unset"
          /\ Abort("OBSIDIAN_VAULT_PATH not set", "1")
    /\ UNCHANGED <<argPath, argRg, files, nworkers, pending, part, loaded,
                   collected_tags, scanned, logged, remaining, out, child>>
    /\ UNCHANGED parseVars

ExpandUser ==
    /\ pc = "expand"
    /\ \/ pc' = "walk" /\ UNCHANGED <<exit, stderr>>
       \/ Abort("expanduser", "1")
    /\ UNCHANGED <<argPath, env, argRg, files, nworkers, pending, part, loaded,
                   collected_tags, scanned, logged, remaining, out, child>>
    /\ UNCHANGED parseVars

\* collect_paths over the vault, and the pool collect_tags runs on
CollectPaths ==
    /\ pc = "walk"
    /\ \E entries \in SeqUpTo(Entries, MaxPaths), n \in 1..MaxWorkers :
          /\ files' = collect_paths(entries)
          /\ nworkers' = n
          /\ pending' = 1..Len(files')
          /\ part' = [w \in 1..n |-> <<>>]
          /\ loaded' = [i \in 1..Len(files') |-> NotRun]
    /\ pc' = "collect"
    /\ UNCHANGED <<argPath, env, argRg, collected_tags, scanned, logged,
                   remaining, out, exit, stderr, child>>
    /\ UNCHANGED parseVars

\* one path's task, on worker w
Task(w, i) ==
    /\ pc = "collect"
    /\ i \in pending
    /\ LET r == load_tags(files[i]) IN
          /\ loaded' = [loaded EXCEPT ![i] = r]
          /\ part' = [part EXCEPT ![w] = fold_task(@, r)]
    /\ pending' = pending \ {i}
    /\ UNCHANGED <<pc, argPath, env, argRg, files, nworkers, collected_tags,
                   scanned, logged, remaining, out, exit, stderr, child>>
    /\ UNCHANGED parseVars

\* collect_tags returns the merged set
Collect ==
    /\ pc = "collect"
    /\ pending = {}
    /\ collected_tags' = collect(part)
    /\ pc' = "returned"
    /\ UNCHANGED <<argPath, env, argRg, files, nworkers, pending, part, loaded,
                   scanned, logged, remaining, out, exit, stderr, child>>
    /\ UNCHANGED parseVars

\* `if args.rg`; files, part and loaded are not read again and are forgotten
CheckRg ==
    /\ pc = "returned"
    /\ IF argRg THEN pc' = "spawn" /\ UNCHANGED remaining
       ELSE pc' = "print" /\ remaining' = collected_tags
    /\ files' = <<>> /\ part' = <<>> /\ loaded' = <<>>
    /\ UNCHANGED <<argPath, env, argRg, nworkers, pending, collected_tags,
                   scanned, logged, out, exit, stderr, child>>
    /\ UNCHANGED parseVars

\* Command::new("rg")...spawn()
Spawn ==
    /\ pc = "spawn"
    /\ \/ pc' = "stream" /\ child' = "running" /\ UNCHANGED <<exit, stderr, remaining>>
       \/ child' = "spawn_error" /\ spawn_failed("rg spawn failed", "1")
    /\ UNCHANGED <<argPath, env, argRg, files, nworkers, pending, part, loaded,
                   collected_tags, scanned, logged, out>>
    /\ UNCHANGED parseVars

\* one item of tags.into_iter().for_each(..)
StreamItem(item) ==
    /\ pc = "stream"
    /\ Len(scanned) < MaxStream
    /\ scanned' = Append(scanned, item)
    /\ LET tag == scan_line(item) IN
          IF tag.ok
          THEN collected_tags' = collected_tags \cup {tag.val} /\ UNCHANGED logged
          ELSE logged' = logged + 1 /\ UNCHANGED collected_tags
    /\ UNCHANGED <<pc, argPath, env, argRg, files, nworkers, pending, part,
                   loaded, remaining, out, exit, stderr, child>>
    /\ UNCHANGED parseVars

\* the stream closes: the loop ends
StreamClose ==
    /\ pc = "stream"
    /\ pc' = "print"
    /\ remaining' = collected_tags
    /\ UNCHANGED <<argPath, env, argRg, files, nworkers, pending, part, loaded,
                   collected_tags, scanned, logged, out, exit, stderr, child>>
    /\ UNCHANGED parseVars

\* one iteration of `for tag in collected_tags`
PrintTag(tag) ==
    /\ pc = "print"
    /\ tag \in remaining
    /\ out' = Append(out, remove_hash(tag))
    /\ remaining' = remaining \ {tag}
    /\ UNCHANGED <<pc, argPath, env, argRg, files, nworkers, pending, part,
                   loaded, collected_tags, scanned, logged, exit, stderr, child>>
    /\ UNCHANGED parseVars

\* Ok(())
Finish ==
    /\ pc = "print"
    /\ remaining = {}
    /\ pc' = "done"
    /\ exit' = "0"
    /\ UNCHANGED <<argPath, env, argRg, files, nworkers, pending, part, loaded,
                   collected_tags, scanned, logged, remaining, out, stderr, child>>
    /\ UNCHANGED parseVars

Next ==
    \/ ResolveRoot
    \/ ExpandUser
    \/ CollectPaths
    \/ \E w \in 1..nworkers, i \in pending : Task(w, i)
    \/ Collect
    \/ CheckRg
    \/ Spawn
    \/ \E item \in StreamItems : StreamItem(item)
    \/ StreamClose
    \/ \E tag \in remaining : PrintTag(tag)
    \/ Finish

Spec == Init /\ [][Next]_vars

-----------------------------------------------------------------------------
(* Vocabulary of the properties *)

Readable(f) == f.open /\ f.errAt = 0

Min(S) == CHOOSE i \in S : \A j \in S : i <= j

\* what frontmatter::parse gives for the file's first section
ParsedDoc(f) ==
    LET c == read_first_section(f) IN
    IF c.ok THEN frontmatter_parse(c.val, f.yaml) ELSE c

HasDoc(f) == ParsedDoc(f).ok /\ ParsedDoc(f).val # <<>>

HasTagsField(f) ==
    HasDoc(f) /\ ParsedDoc(f).val[1].isHash /\ ParsedDoc(f).val[1].hasTags

TagsField(f) == ParsedDoc(f).val[1].tags

IsString(v) == v.type = "String"
NonEmpty(s) == s # <<>>

\* non-strings dropped, the rest trimmed, the empty ones dropped, in order
ExpectedTags(items) ==
    LET strs == SelectSeq(items, IsString)
        trimmed == [k \in 1..Len(strs) |-> trim(strs[k].str)]
    IN  SelectSeq(trimmed, NonEmpty)

Trimmed(s) == s # <<>> /\ s[1] \notin WhiteSpace /\ s[Len(s)] \notin WhiteSpace

\* collect_tags has just returned
AggregatorReturned == pc = "returned"

RECURSIVE sequential_tags(_)
sequential_tags(fs) ==
    IF fs = <<>> THEN {}
    ELSE (IF load_tags(Head(fs)).ok THEN Range(load_tags(Head(fs)).val) ELSE {})
         \cup sequential_tags(Tail(fs))

SetupErrors == {"OBSIDIAN_VAULT_PATH not set", "failed to convert path",
                "expanduser", "rg spawn failed"}

OkLines == {trim(scanned[k].val) : k \in {j \in DOMAIN scanned : scanned[j].ok}}
ErrCount == Cardinality({j \in DOMAIN scanned : ~scanned[j].ok})

-----------------------------------------------------------------------------
(* C1 *)

\* C1: no two printed lines are equal: each tag is printed exactly once
\* after the leading '#' characters are stripped.
C1_NoDuplicateLines ==
    \A i, j \in DOMAIN out : i # j => out[i] # out[j]

-----------------------------------------------------------------------------
(* C2 *)

\* C2: for a front-matter block that decodes to a document (a mapping) with
\* no `tags` field, load_tags returns Ok with an empty list.
C2_NoTagsFieldGivesEmptyList ==
    (tags # NotRun /\ HasDoc(file) /\ ParsedDoc(file).val[1].isHash
        /\ ~ParsedDoc(file).val[1].hasTags) => tags = Ok(<<>>)

-----------------------------------------------------------------------------
(* C3 *)

\* C3: the set collect_tags returns is the union of the tag lists of the
\* paths whose load succeeds, whichever worker ran which path in whichever
\* order, and it is the set a sequential run over the same paths gives.
C3_AggregatorIsUnion ==
    AggregatorReturned =>
        /\ collected_tags =
              UNION {Range(load_tags(files[i]).val) :
                        i \in {j \in DOMAIN files : load_tags(files[j]).ok}}
        /\ collected_tags = sequential_tags(files)

C3_Witness ==
    /\ AggregatorReturned
    /\ nworkers = 2
    /\ \A w \in DOMAIN part : part[w] # <<>>
    /\ \E i \in DOMAIN loaded : ~loaded[i].ok
    /\ Cardinality(collected_tags) >= 2

-----------------------------------------------------------------------------
(* C4 *)

\* C4: a `tags` field that is not a list gives InvalidTagsType, a file that
\* cannot be opened or read gives the load error; such a file adds no tag
\* to the aggregator's set, which still holds every tag of the other files;
\* the aggregator never makes the run fail.
C4_BadFileContributesNothing ==
    /\ \A i \in DOMAIN loaded : loaded[i] # NotRun =>
          /\ (HasTagsField(files[i]) /\ TagsField(files[i]).type # "Array")
                => loaded[i] = Err("InvalidTagsType")
          /\ (~files[i].open \/ ~read_first_section(files[i]).ok)
                => loaded[i] = Err("LoadError")
    /\ AggregatorReturned =>
          collected_tags =
              UNION {Range(loaded[i].val) : i \in {j \in DOMAIN loaded : loaded[j].ok}}
    /\ pc \in {"collect", "returned"} => exit = "running" /\ stderr = ""
    /\ pc = "failed" => stderr \in SetupErrors

C4_Witness ==
    /\ AggregatorReturned
    /\ \E i, j, k \in DOMAIN loaded :
          /\ loaded[i] = Err("InvalidTagsType") /\ HasTagsField(files[i])
          /\ loaded[j] = Err("LoadError")
          /\ loaded[k].ok /\ loaded[k].val # <<>>
    /\ collected_tags # {}

-----------------------------------------------------------------------------
(* C5 *)

\* C5 as stated: for a readable file with at least two delimiter lines the
\* extractor returns the file's lines from the first delimiter line through
\* the second, each as read and followed by a line terminator.
C5_SectionAsRead ==
    (section # NotRun /\ Readable(file) /\ Cardinality(DelimLines(file)) >= 2) =>
        LET d1 == Min(DelimLines(file))
            d2 == Min(DelimLines(file) \ {d1})
        IN  section = Ok(Unlines(SubSeq(file.lines, d1, d2)))

\* C5 amended: the two delimiter lines are returned as the bare token
\* `---`, without the whitespace around them; the lines between them are
\* returned as read; every line is followed by a line terminator, and
\* nothing before the first or after the second delimiter line is returned.
C5_SectionDelimsNormalised ==
    (section # NotRun /\ Readable(file) /\ Cardinality(DelimLines(file)) >= 2) =>
        LET d1 == Min(DelimLines(file))
            d2 == Min(DelimLines(file) \ {d1})
        IN  section = Ok(Unlines(<<Delim>> \o SubSeq(file.lines, d1 + 1, d2 - 1)
                                 \o <<Delim>>))

C5_Witness ==
    /\ section.ok
    /\ Readable(file)
    /\ Cardinality(DelimLines(file)) >= 3
    /\ Min(DelimLines(file)) > 1
    /\ Min(DelimLines(file) \ {Min(DelimLines(file))}) > Min(DelimLines(file)) + 1
    /\ file.lines[Min(DelimLines(file))] # Delim

-----------------------------------------------------------------------------
(* C6 *)

\* C6 as stated: with exactly one delimiter line the extractor returns that
\* line and every later line, each followed by a line terminator; with none
\* it returns the empty string; it fails in neither case.
C6_OpenBlockAsRead ==
    (section # NotRun /\ Readable(file)) =>
        /\ Cardinality(DelimLines(file)) = 1 =>
              section = Ok(Unlines(SubSeq(file.lines, Min(DelimLines(file)),
                                          Len(file.lines))))
        /\ DelimLines(file) = {} => section = Ok(<<>>)

\* C6 amended: with exactly one delimiter line the extractor returns the
\* bare token `---` for it (the whitespace around it dropped) and then every
\* later line as read, each followed by a line terminator; with none it
\* returns the empty string; it fails in neither case.
C6_OpenBlockKept ==
    (section # NotRun /\ Readable(file)) =>
        /\ Cardinality(DelimLines(file)) = 1 =>
              section = Ok(Unlines(<<Delim>> \o SubSeq(file.lines,
                                      Min(DelimLines(file)) + 1, Len(file.lines))))
        /\ DelimLines(file) = {} => section = Ok(<<>>)

C6_Witness ==
    /\ section.ok
    /\ Readable(file)
    /\ Cardinality(DelimLines(file)) = 1
    /\ Min(DelimLines(file)) > 1
    /\ Len(file.lines) >= Min(DelimLines(file)) + 2

-----------------------------------------------------------------------------
(* C7 *)

\* C7: when `tags` is a list, load_tags returns its string elements,
\* trimmed, without those that are empty once trimmed, in source order;
\* every returned tag is trimmed and non-empty.
C7_ListIsFilteredAndTrimmed ==
    (tags # NotRun /\ HasTagsField(file) /\ TagsField(file).type = "Array") =>
        /\ tags = Ok(ExpectedTags(TagsField(file).items))
        /\ \A k \in DOMAIN tags.val : Trimmed(tags.val[k])

C7_Witness ==
    /\ tags = Ok(<<<<"a">>, <<"b">>, <<"c">>>>)
    /\ HasTagsField(file)
    /\ TagsField(file) = YArray(<<YString(<<"a">>), YString(<<" ", "b", " ">>),
                                   YString(<<>>), YString(<<"c">>)>>)

-----------------------------------------------------------------------------
(* C8 *)

\* C8: the run exits non-zero, with nothing printed, when no root is given
\* and when rg cannot be spawned; a run ends in failure only for a setup
\* error, and a run that ends otherwise exits zero, whatever files failed.
C8_ExitCodes ==
    /\ (~argPath /\ env = "unset") =>
          pc = "failed" /\ exit \notin {"running", "0"} /\ out = <<>>
    /\ child = "spawn_error" =>
          argRg /\ pc = "failed" /\ exit \notin {"running", "0"} /\ out = <<>>
    /\ pc = "failed" => exit \notin {"running", "0"} /\ stderr \in SetupErrors
    /\ pc = "done" => exit = "0" /\ child # "spawn_error"
    /\ exit # "running" <=> pc \in {"done", "failed"}

C8_Witness ==
    /\ pc = "failed"
    /\ child = "spawn_error"
    /\ exit = "1"
    /\ collected_tags # {}

-----------------------------------------------------------------------------
(* C9 *)

\* C9: with the rg flag set, every line the stream yields is inserted,
\* trimmed, into the tag set, every read error is only logged, the run
\* never fails once the stream is open, and when it ends every tag of the
\* merged set has been printed.
C9_StreamErrorsAreSkipped ==
    /\ OkLines \subseteq collected_tags
    /\ logged = ErrCount
    /\ child = "running" => pc \in {"stream", "print", "done"} /\ stderr = ""
    /\ (pc = "done" /\ argRg) =>
          /\ Range(out) = {remove_hash(t) : t \in collected_tags}
          /\ Len(out) = Cardinality(collected_tags)

C9_Witness ==
    /\ pc = "done"
    /\ argRg
    /\ Len(scanned) = 2
    /\ ~scanned[1].ok
    /\ scanned[2].ok
    /\ trim(scanned[2].val) # scanned[2].val
    /\ trim(scanned[2].val) \in collected_tags
    /\ logged = 1

-----------------------------------------------------------------------------
(* C10 *)

\* C10: every printed line is non-empty: stripping the leading '#'
\* characters of a tag of the merged set leaves a non-empty string.
C10_NoEmptyLine ==
    \A i \in DOMAIN out : out[i] # <<>>

=============================================================================
